---- MODULE Spec2Model ----
(***************************************************************************)
(* Asynchronous audio capture (AsyncMicrophone), its listener list         *)
(* (Observable), the moving-window FFT peak detector (FFTPeak) and the     *)
(* wave-file recorder (WaveRecorder) of psychopy/async_microphone.py.      *)
(*                                                                         *)
(* Threads: the experiment script (caller), threading.Timer threads, the   *)
(* PortAudio callback thread and the QThread that runs FFTPeak's slot.     *)
(***************************************************************************)
EXTENDS Integers, Sequences, FiniteSets, TLC

(* ------------------------------ bounds -------------------------------- *)
MaxCalls == 4          \* calls the experiment script makes
MaxCallbacks == 3      \* invocations of the stream callback by the driver
MaxFuncs == 3          \* length of Observable._funcs
buffer_count == 2      \* FFTPeak(buffer_count=...): buffers per window

(* ------------------- configuration of the instances ------------------- *)
sample_rate == 12            \* AsyncMicrophone(sample_rate=...), in Hz
buffer_duration_ms == 170    \* AsyncMicrophone(buffer_duration=0.170)
buffer_size == (sample_rate * buffer_duration_ms) \div 1000
scanning_range == <<0, 7>>   \* FFTPeak(scanning_range=...), in Hz
channels == 1                \* AsyncMicrophone(channels=1)
sample_size == 2             \* pa.get_sample_size(pyaudio.paInt16), in bytes

NOT_STARTED == "NOT_STARTED"
STARTED == "STARTED"
FINISHED == "FINISHED"

paContinue == "paContinue"
paComplete == "paComplete"
paAbort == "paAbort"

None == <<>>                 \* Python None; a value v is <<v>>
Some(v) == <<v>>

\* int16 sample buffers the driver hands to the callback (numpy.fromstring)
Buffers == {<<1, 0>>, <<-1, 0>>}

Recorders == {"rec1", "rec2"}
\* the threads that call stop() and close(): the script, and a Timer
Threads == {"script", "timer"}
\* duration arguments: None, 0 and a positive number of seconds
Durations == {None, Some(0), Some(1)}

VARIABLES
  \* AsyncMicrophone
  audio_stream,    \* self._audio_stream: None or Some(stream id)
  status,          \* self.status
  funcs,           \* self.buffer_ready._funcs, in registration order
  mic_timers,      \* pending threading.Timer(duration, self.close)
  open_pc,         \* where the caller is inside open(): "idle" or "created"
  open_dur,        \* the duration argument of the open() in progress
  \* PortAudio
  pa_created,      \* number of streams pa.open has created
  pa_open,         \* ids of the streams that are open
  pa_active,       \* ids of the streams whose callback the driver still calls
  pa_closes,       \* pa_closes[s]: number of Stream.close() calls on stream s
  \* FFTPeak
  data,            \* self._data
  f0,              \* self._f0
  fft_status,      \* self.status
  thread_running,  \* self._thread's event loop is running
  slot_queue,      \* buffers posted to self._thread for the _update slot
  fft_timers,      \* pending threading.Timer(duration, self.stop)
  \* WaveRecorder
  rec_status,      \* rec_status[r]: self.status
  wave_open,       \* wave_open[r]: self._wave_file is an open Wave_write
  frames,          \* frames[r]: the buffers written to self._wave_file
  files_opened,    \* files_opened[r]: number of wave.open calls
  files_closed,    \* files_closed[r]: number of Wave_write.close calls
  wave_header,     \* wave_header[r]: None, or channels, width and rate set
  rec_timers,      \* rec_timers[r]: pending threading.Timer(duration, close)
  \* threads inside start(), stop(), _update, _add_data and close()
  start_pc,        \* the script inside start(): "idle" or "status"
  stop_pc,         \* stop_pc[t]: thread t inside stop(): "idle" or "wait"
  quit_req,        \* self._thread.quit() has been called on the running loop
  in_update,       \* the worker thread is inside _update
  add_pc,          \* add_pc[r]: None, or the buffer _add_data is to write
  close_pc,        \* close_pc[t]: None, or the recorder thread t is closing
  stop_return,     \* whether _update was running when a stop() last returned
  after_stop,      \* a stop() has returned since the last start()
  starts,          \* number of start() calls
  posted_in,       \* posted_in[i]: whether FFTPeak was STARTED when
                   \* slot_queue[i] was posted
  run_timed,       \* a start() of the current run of FFTPeak started a timer
  run_start,       \* Len(processed) when the current run of FFTPeak began
  \* LS100
  lastLum,         \* self.lastLum: None or Some(luminance)
  ls_log,          \* the messages given to log.error, in order
  ls_reply,        \* the reply sendMessage read for the last command
  ls_ret,          \* the boolean setMode or clearMemory last returned
  ls_lum,          \* what measure last returned: Some(luminance), or None
                   \* for False
  ls_last,         \* self.lastLum before that method
  \* observation of the run
  n_calls,         \* calls made by the script so far
  last_op,         \* the last call of the script
  last_exc,        \* the exception the last call of the script raised
  close_from,      \* self.status as the last close() found it
  rec_found,       \* rec_found[r]: the last begin/close of r, and the status
                   \* it found
  timer_found,     \* timer_found[x]: the status the last timer of x found
  expected,        \* expected[r]: buffers broadcast while r was armed, since
                   \* its last begin(), less one whose write by r failed
  n_cb,            \* callbacks the driver has made so far
  cb_status,       \* self.status as the last callback read it
  cb_return,       \* what the last callback returned, or "raised"
  cb_buffer,       \* the buffer handed to the last callback
  cb_reached,      \* number of listeners the last broadcast invoked
  cb_listeners,    \* number of listeners registered at the last broadcast
  cb_failed,       \* position of the listener that raised in it, or 0
  cb_order,        \* positions of the listeners it invoked, in order
  produced,        \* buffers broadcast so far, in capture order
  observed,        \* observed[i]: buffers funcs[i] has been called with
  registered_at,   \* registered_at[i]: Len(produced) when funcs[i] registered
  processed,       \* buffers _update has been called with, in order
  f0_ready,        \* values emitted on the f0_ready signal, in order
  upd_exc,         \* the exception the last _update raised
  upd_f0,          \* self._f0 as it was before the last _update
  upd_ready        \* number of f0_ready emissions before the last _update

mic_vars == <<audio_stream, status, funcs, mic_timers, open_pc, open_dur,
              close_from>>
pa_vars == <<pa_created, pa_open, pa_active, pa_closes>>
fft_vars == <<data, f0, fft_status, thread_running, fft_timers>>
upd_vars == <<processed, f0_ready, upd_exc, upd_f0, upd_ready>>
rec_vars == <<rec_status, wave_open, frames, files_opened, files_closed,
              wave_header, rec_timers, rec_found, expected>>
call_vars == <<n_calls, last_op, last_exc, timer_found>>
cb_vars == <<n_cb, cb_status, cb_return, cb_buffer, cb_reached, cb_listeners,
             cb_failed, cb_order, produced>>
obs_vars == <<observed, registered_at>>

thr_vars == <<start_pc, stop_pc, quit_req, in_update, add_pc, close_pc,
              stop_return, after_stop, starts>>

ls_vars == <<lastLum, ls_log, ls_reply, ls_ret, ls_lum, ls_last>>

vars == <<mic_vars, pa_vars, fft_vars, upd_vars, rec_vars, call_vars, cb_vars,
          obs_vars, slot_queue, thr_vars, ls_vars, posted_in, run_timed,
          run_start>>

\* The state once the microphone and the listeners fs are constructed.
constructed_with(fs) ==
  /\ audio_stream = None
  /\ status = NOT_STARTED
  /\ funcs = fs
  /\ mic_timers = 0
  /\ open_pc = "idle"
  /\ open_dur = None
  /\ close_from = "none"
  /\ pa_created = 0
  /\ pa_open = {}
  /\ pa_active = {}
  /\ pa_closes = <<>>
  /\ data = <<>>
  /\ f0 = None
  /\ fft_status = NOT_STARTED
  /\ thread_running = FALSE
  /\ slot_queue = <<>>
  /\ fft_timers = 0
  /\ rec_status = [r \in Recorders |-> NOT_STARTED]
  /\ wave_open = [r \in Recorders |-> FALSE]
  /\ frames = [r \in Recorders |-> <<>>]
  /\ files_opened = [r \in Recorders |-> 0]
  /\ files_closed = [r \in Recorders |-> 0]
  /\ wave_header = [r \in Recorders |-> None]
  /\ rec_timers = [r \in Recorders |-> 0]
  /\ rec_found = [r \in Recorders |-> <<"none", "none">>]
  /\ timer_found = [x \in {"mic", "fft"} \cup Recorders |-> "none"]
  /\ expected = [r \in Recorders |-> <<>>]
  /\ n_calls = 0
  /\ last_op = "none"
  /\ last_exc = "none"
  /\ n_cb = 0
  /\ cb_status = "none"
  /\ cb_return = "none"
  /\ cb_buffer = <<>>
  /\ cb_reached = 0
  /\ cb_listeners = 0
  /\ cb_failed = 0
  /\ cb_order = <<>>
  /\ produced = <<>>
  /\ observed = [i \in DOMAIN fs |-> <<>>]
  /\ registered_at = [i \in DOMAIN fs |-> 0]
  /\ processed = <<>>
  /\ f0_ready = <<>>
  /\ upd_exc = "none"
  /\ upd_f0 = None
  /\ upd_ready = 0
  /\ start_pc = "idle"
  /\ stop_pc = [t \in Threads |-> "idle"]
  /\ quit_req = FALSE
  /\ in_update = FALSE
  /\ add_pc = [r \in Recorders |-> None]
  /\ close_pc = [t \in Threads |-> None]
  /\ stop_return = "none"
  /\ after_stop = FALSE
  /\ starts = 0
  /\ posted_in = <<>>
  /\ run_timed = FALSE
  /\ run_start = 0
  /\ lastLum = None
  /\ ls_log = <<>>
  /\ ls_reply = <<>>
  /\ ls_ret = FALSE
  /\ ls_lum = None
  /\ ls_last = None

\* AsyncMicrophone.__init__ registers the lambda that emits the Qt signal.
Init == constructed_with(<<"signal">>)

\* The microphone and one recorder per Recorders, constructed in order.
InitRecorders == constructed_with(<<"signal", "rec1", "rec2">>)


(* ------------------------- the script's calls ------------------------- *)
\* One call of the script, made while it is not inside open().
called(op, exc) ==
  /\ n_calls' = n_calls + 1
  /\ last_op' = op
  /\ last_exc' = exc
  /\ timer_found' = timer_found

can_call ==
  /\ open_pc = "idle"
  /\ start_pc = "idle"
  /\ stop_pc["script"] = "idle"
  /\ close_pc["script"] = None
  /\ n_calls < MaxCalls

(* --------------------------- AsyncMicrophone --------------------------- *)
\* Observable.register, as WaveRecorder.__init__ calls it for its _add_data
\* (and as any later explicit register of the same bound method does).
\* The recorders are constructed in the order rec1, rec2.
register(r) ==
  /\ can_call
  /\ Len(funcs) < MaxFuncs
  /\ r = "rec2" => \E i \in DOMAIN funcs : funcs[i] = "rec1"
  /\ funcs' = Append(funcs, r)
  /\ observed' = Append(observed, <<>>)
  /\ registered_at' = Append(registered_at, Len(produced))
  /\ called("register", "none")
  /\ UNCHANGED <<audio_stream, status, mic_timers, open_pc, open_dur,
                 close_from, pa_vars, fft_vars, upd_vars, rec_vars, cb_vars,
                 slot_queue>>
  /\ UNCHANGED <<thr_vars, ls_vars, run_timed, run_start, posted_in>>

\* open() without the guard on self._audio_stream.
open_stream_unguarded(duration) ==
  /\ can_call
  /\ pa_created' = pa_created + 1
  /\ audio_stream' = Some(pa_created + 1)
  /\ pa_open' = pa_open \cup {pa_created + 1}
  /\ pa_active' = pa_active \cup {pa_created + 1}
  /\ pa_closes' = Append(pa_closes, 0)
  /\ open_pc' = "created"
  /\ open_dur' = duration
  /\ called("open", "none")
  /\ UNCHANGED <<status, funcs, mic_timers, close_from>>
  /\ UNCHANGED <<fft_vars, upd_vars, rec_vars, cb_vars, obs_vars, slot_queue>>
  /\ UNCHANGED <<thr_vars, ls_vars, run_timed, run_start, posted_in>>

\* open(), up to and including pa.open: the guard on self._audio_stream and
\* the creation of the stream, which starts calling back at once.
\* open() that tests self.status instead of self._audio_stream.
open_stream_status_guard(duration) ==
  /\ can_call
  /\ IF status # NOT_STARTED
       THEN /\ called("open", "SoundCaptureException")
            /\ UNCHANGED <<mic_vars, pa_vars>>
       ELSE /\ pa_created' = pa_created + 1
            /\ audio_stream' = Some(pa_created + 1)
            /\ pa_open' = pa_open \cup {pa_created + 1}
            /\ pa_active' = pa_active \cup {pa_created + 1}
            /\ pa_closes' = Append(pa_closes, 0)
            /\ open_pc' = "created"
            /\ open_dur' = duration
            /\ called("open", "none")
            /\ UNCHANGED <<status, funcs, mic_timers, close_from>>
  /\ UNCHANGED <<fft_vars, upd_vars, rec_vars, cb_vars, obs_vars, slot_queue>>
  /\ UNCHANGED <<thr_vars, ls_vars, run_timed, run_start, posted_in>>

open_stream(duration) ==
  /\ can_call
  /\ IF audio_stream # None
       THEN /\ called("open", "SoundCaptureException")
            /\ UNCHANGED <<mic_vars, pa_vars>>
       ELSE /\ pa_created' = pa_created + 1
            /\ audio_stream' = Some(pa_created + 1)
            /\ pa_open' = pa_open \cup {pa_created + 1}
            /\ pa_active' = pa_active \cup {pa_created + 1}
            /\ pa_closes' = Append(pa_closes, 0)
            /\ open_pc' = "created"
            /\ open_dur' = duration
            /\ called("open", "none")
            /\ UNCHANGED <<status, funcs, mic_timers, close_from>>
  /\ UNCHANGED <<fft_vars, upd_vars, rec_vars, cb_vars, obs_vars, slot_queue>>
  /\ UNCHANGED <<thr_vars, ls_vars, run_timed, run_start, posted_in>>

\* open() that sets the status and starts no timer.
open_started_untimed ==
  /\ open_pc = "created"
  /\ status' = STARTED
  /\ open_pc' = "idle"
  /\ open_dur' = None
  /\ UNCHANGED <<audio_stream, funcs, mic_timers, close_from, pa_vars,
                 fft_vars, upd_vars, rec_vars, call_vars, cb_vars, obs_vars,
                 slot_queue>>
  /\ UNCHANGED <<thr_vars, ls_vars, run_timed, run_start, posted_in>>

\* open(), after pa.open has returned: the status and the optional timer.
open_started ==
  /\ open_pc = "created"
  /\ status' = STARTED
  /\ mic_timers' = IF open_dur # None THEN mic_timers + 1 ELSE mic_timers
  /\ open_pc' = "idle"
  /\ open_dur' = None
  /\ UNCHANGED <<audio_stream, funcs, close_from, pa_vars, fft_vars, upd_vars,
                 rec_vars, call_vars, cb_vars, obs_vars, slot_queue>>
  /\ UNCHANGED <<thr_vars, ls_vars, run_timed, run_start, posted_in>>

\* close() that closes the stream whenever there is one, whatever the status.
mic_close_any_status ==
  /\ IF audio_stream # None
       THEN LET s == audio_stream[1] IN
            /\ pa_open' = pa_open \ {s}
            /\ pa_active' = pa_active \ {s}
            /\ pa_closes' = [pa_closes EXCEPT ![s] = @ + 1]
       ELSE UNCHANGED <<pa_open, pa_active, pa_closes>>
  /\ status' = FINISHED
  /\ close_from' = status
  /\ UNCHANGED <<audio_stream, funcs, open_pc, open_dur, pa_created>>

\* The body of close(): Stream.close() while STARTED, then FINISHED.
mic_close ==
  /\ IF status = STARTED /\ audio_stream # None
       THEN LET s == audio_stream[1] IN
            /\ pa_open' = pa_open \ {s}
            /\ pa_active' = pa_active \ {s}
            /\ pa_closes' = [pa_closes EXCEPT ![s] = @ + 1]
       ELSE UNCHANGED <<pa_open, pa_active, pa_closes>>
  /\ status' = FINISHED
  /\ close_from' = status
  /\ UNCHANGED <<audio_stream, funcs, open_pc, open_dur, pa_created>>

\* close() called by the script.
close ==
  /\ can_call
  /\ mic_close
  /\ called("close", "none")
  /\ UNCHANGED <<mic_timers, fft_vars, upd_vars, rec_vars, cb_vars, obs_vars,
                 slot_queue>>
  /\ UNCHANGED <<thr_vars, ls_vars, run_timed, run_start, posted_in>>

\* The timer started by open(duration) fires and calls close().
mic_timer ==
  /\ mic_timers > 0
  /\ mic_timers' = mic_timers - 1
  /\ mic_close
  /\ timer_found' = [timer_found EXCEPT !["mic"] = status]
  /\ UNCHANGED <<fft_vars, upd_vars, rec_vars, n_calls, last_op, last_exc,
                 cb_vars, obs_vars, slot_queue>>
  /\ UNCHANGED <<thr_vars, ls_vars, run_timed, run_start, posted_in>>

(* ----------------------------- Observable ------------------------------ *)
\* What one listener does with buffer b.  st carries the state the
\* listeners change; fail_at is the position of the listener whose
\* writeframes fails with an I/O error, or 0.
invoke(fn, i, b, st, fail_at) ==
  LET seen == [st EXCEPT !.observed[i] = Append(@, b), !.reached = i,
                         !.order = Append(@, i)] IN
  IF fn = "signal"
    \* lambda x: self.buffer_ready_signal.emit(x): the receiver lives in
    \* another thread, so the call of its slot is posted to that thread
    THEN [seen EXCEPT !.queue = Append(@, b)]
    \* WaveRecorder._add_data
    ELSE IF rec_status[fn] = STARTED
           THEN IF fail_at = i \/ ~wave_open[fn]
                  THEN [seen EXCEPT !.raised = TRUE, !.failed = i]
                  ELSE [seen EXCEPT !.frames[fn] = Append(@, b)]
           ELSE seen

\* Observable.__call__: for func in self._funcs: func(*args), from position
\* i on.  An exception of a listener ends the loop.
RECURSIVE call_from(_, _, _, _)
call_from(i, b, st, fail_at) ==
  IF i > Len(funcs) \/ st.raised
    THEN st
    ELSE call_from(i + 1, b, invoke(funcs[i], i, b, st, fail_at), fail_at)

buffer_ready(b, fail_at) ==
  call_from(1, b, [frames |-> frames, queue |-> slot_queue,
                   observed |-> observed, raised |-> FALSE, reached |-> 0,
                   failed |-> 0, order |-> <<>>],
            fail_at)

\* AsyncMicrophone._capture_buffer, called by the driver for stream s.
\* A return other than paContinue, or an exception, ends the callbacks.
capture_buffer(s, b, fail_at) ==
  /\ s \in pa_active
  /\ n_cb < MaxCallbacks
  /\ n_cb' = n_cb + 1
  /\ cb_status' = status
  /\ cb_buffer' = b
  /\ cb_listeners' = Len(funcs)
  /\ IF status = STARTED
       THEN LET st == buffer_ready(b, fail_at) IN
            /\ produced' = Append(produced, b)
            /\ frames' = st.frames
            /\ slot_queue' = st.queue
            /\ posted_in' =
                 posted_in \o [i \in 1 .. Len(st.queue) - Len(slot_queue)
                                 |-> fft_status = STARTED]
            /\ observed' = st.observed
            /\ cb_reached' = st.reached
            /\ cb_failed' = st.failed
            /\ cb_order' = st.order
            /\ expected' =
                 [r \in Recorders |->
                    IF rec_status[r] = STARTED
                       /\ ~(st.failed # 0 /\ funcs[st.failed] = r)
                      THEN Append(expected[r], b) ELSE expected[r]]
            /\ cb_return' = IF st.raised THEN "raised" ELSE paContinue
            /\ pa_active' = IF st.raised THEN pa_active \ {s} ELSE pa_active
       ELSE /\ cb_return' = IF status = FINISHED THEN paComplete ELSE paAbort
            /\ pa_active' = pa_active \ {s}
            /\ cb_reached' = 0
            /\ cb_failed' = 0
            /\ cb_order' = <<>>
            /\ UNCHANGED <<produced, frames, slot_queue, observed, expected,
                           posted_in>>
  /\ UNCHANGED <<mic_vars, pa_created, pa_open, pa_closes, fft_vars, upd_vars,
                 rec_status, wave_open, files_opened, files_closed, wave_header,
                 rec_timers, rec_found, call_vars, registered_at>>
  /\ UNCHANGED <<thr_vars, ls_vars, run_timed, run_start>>

(* ------------------------------- FFTPeak ------------------------------- *)
\* Names bound at module level by the import statements, and attributes
\* FFTPeak.__init__ sets on self: a name outside them raises when used.
module_names ==
  {"threading", "wave", "numpy", "pyaudio", "scipy", "core", "logging",
   "NOT_STARTED", "STARTED", "FINISHED", "qtgui", "pa", "paComplete",
   "paAbort"}
fft_attrs ==
  {"_mic", "_data", "_buffer_count", "_scanning_range", "_x_values", "_min_idx",
   "_max_idx", "_f0", "status", "_thread"}

window_len == buffer_count * buffer_size

\* numpy.fft.rfftfreq(n, d) with d = 1.0 / sample_rate: bin k is at
\* k * sample_rate / n Hz, for k in 0 .. n // 2 (exact for the rates used).
x_values == [k \in 0 .. (window_len \div 2) |-> (k * sample_rate) \div window_len]

\* numpy.searchsorted(a, v), side 'left': the first index whose value is
\* >= v, or the length of a.
searchsorted(a, v) ==
  LET hits == {k \in DOMAIN a : a[k] >= v} IN
  IF hits = {} THEN Cardinality(DOMAIN a)
  ELSE CHOOSE k \in hits : \A j \in hits : k <= j

min_idx == searchsorted(x_values, scanning_range[1])
max_idx == searchsorted(x_values, scanning_range[2])

\* The loop with pop() for pop(0): it drops the newest buffer.
RECURSIVE pop_last_while_longer(_, _)
pop_last_while_longer(d, n) ==
  IF Len(d) > n THEN pop_last_while_longer(SubSeq(d, 1, Len(d) - 1), n) ELSE d

\* The while loop of _update: pop(0) while the list is longer than n.
RECURSIVE pop_while_longer(_, _)
pop_while_longer(d, n) ==
  IF Len(d) > n THEN pop_while_longer(Tail(d), n) ELSE d

\* itertools.chain.from_iterable(self._data): the samples, oldest first.
RECURSIVE chain(_)
chain(d) == IF d = <<>> THEN <<>> ELSE Head(d) \o chain(Tail(d))

\* Twiddle factors of a transform of length n, as integers: 2*cos(2*pi*j/n),
\* and sin(2*pi*j/n) as a multiple of sqrt(sin_square)/2.
cos2(n) ==
  IF n = 4 THEN <<2, 0, -2, 0>> ELSE <<2, 1, -1, -2, -1, 1>>
sin2(n) ==
  IF n = 4 THEN <<0, 2, 0, -2>> ELSE <<0, 1, 1, 0, -1, -1>>
sin_square(n) == IF n = 4 THEN 1 ELSE 3

RECURSIVE dot(_, _, _, _)
dot(x, table, k, i) ==
  IF i > Len(x) THEN 0
  ELSE x[i] * table[((k * (i - 1)) % Len(x)) + 1] + dot(x, table, k, i + 1)

\* numpy.abs(numpy.fft.rfft(full_data)), bin k: four times the squared
\* magnitude, which orders the bins as the magnitude does.
freq_spec(full_data) ==
  LET n == Len(full_data) IN
  [k \in 0 .. (n \div 2) |->
     dot(full_data, cos2(n), k, 1) * dot(full_data, cos2(n), k, 1)
     + sin_square(n) * dot(full_data, sin2(n), k, 1) * dot(full_data, sin2(n), k, 1)]

\* scipy.signal.argrelmax(freq_spec[lo:hi])[0] + lo: the bins of the slice
\* strictly greater than both neighbours in the slice (order 1, mode
\* 'clip', so the two ends of the slice never qualify).
argrelmax(spec, lo, hi) ==
  {k \in DOMAIN spec :
     /\ lo < k /\ k < hi - 1
     /\ spec[k] > spec[k - 1]
     /\ spec[k] > spec[k + 1]}

\* max(peaks, key=lambda x: freq_spec[x]): the first of the largest.
idx_of_max(peaks, spec) ==
  CHOOSE k \in peaks :
    \A j \in peaks : spec[k] > spec[j] \/ (spec[k] = spec[j] /\ k <= j)

\* A full-window step that has its names bound and takes the largest bin of
\* the band, local maximum or not.
full_window_argmax(d) ==
  LET spec == freq_spec(chain(d))
      band == {k \in DOMAIN spec : min_idx <= k /\ k < max_idx}
  IN IF band = {}
       THEN [exc |-> "none", value |-> None]
       ELSE [exc |-> "none", value |-> Some(x_values[idx_of_max(band, spec)])]

\* The part of _update that runs on a full window, lines 173-194: the
\* exception it raises and the value it passes to _update_f0, if any.
full_window(d) ==
  IF "itertools" \notin module_names
    THEN [exc |-> "NameError", value |-> None]
    ELSE LET spec == freq_spec(chain(d))
             peaks == argrelmax(spec, min_idx, max_idx)
         IN IF peaks = {}
              THEN [exc |-> "none", value |-> None]
              ELSE IF "x_values" \notin fft_attrs
                     THEN [exc |-> "AttributeError", value |-> None]
                     ELSE [exc |-> "none",
                           value |-> Some(x_values[idx_of_max(peaks, spec)])]

\* FFTPeak._update, run by the event loop of self._thread for the oldest
\* posted buffer; _update_f0 sets self._f0 and emits f0_ready.
\* The body of _update for the buffer at the head of the queue.
run_update ==
  /\ slot_queue # <<>>
  /\ LET b == Head(slot_queue)
         d == pop_while_longer(Append(data, b), buffer_count)
         out == IF Len(d) = buffer_count
                  THEN full_window(d)
                  ELSE [exc |-> "none", value |-> None]
     IN /\ slot_queue' = Tail(slot_queue)
        /\ posted_in' = Tail(posted_in)
        /\ data' = d
        /\ processed' = Append(processed, b)
        /\ upd_exc' = out.exc
        /\ upd_f0' = f0
        /\ upd_ready' = Len(f0_ready)
        /\ f0' = IF out.value # None THEN out.value ELSE f0
        /\ f0_ready' = IF out.value # None
                         THEN Append(f0_ready, out.value[1]) ELSE f0_ready

\* The worker thread delivers one posted buffer to the _update slot.
update ==
  /\ thread_running
  /\ run_update
  /\ UNCHANGED <<mic_vars, pa_vars, fft_status, thread_running, fft_timers,
                 rec_vars, call_vars, cb_vars, obs_vars>>
  /\ UNCHANGED <<thr_vars, ls_vars, run_timed, run_start>>

\* FFTPeak.start
start(duration) ==
  /\ can_call
  /\ thread_running' = TRUE
  /\ fft_timers' = IF duration # None /\ duration # Some(0)
                     THEN fft_timers + 1 ELSE fft_timers
  /\ fft_status' = STARTED
  /\ run_timed' = (\/ duration # None /\ duration # Some(0)
                   \/ fft_status = STARTED /\ run_timed)
  /\ run_start' = IF fft_status = STARTED THEN run_start ELSE Len(processed)
  /\ called("start", "none")
  /\ UNCHANGED <<mic_vars, pa_vars, data, f0, upd_vars, rec_vars, cb_vars,
                 obs_vars, slot_queue>>
  /\ UNCHANGED <<thr_vars, ls_vars, posted_in>>

\* The body of FFTPeak.stop: quit the event loop and wait for the thread.
fft_stop ==
  /\ IF fft_status = STARTED
       THEN thread_running' = FALSE /\ fft_status' = FINISHED
       ELSE UNCHANGED <<thread_running, fft_status>>
  /\ UNCHANGED <<data, f0>>

stop ==
  /\ can_call
  /\ fft_stop
  /\ called("stop", "none")
  /\ UNCHANGED <<mic_vars, pa_vars, fft_timers, upd_vars, rec_vars, cb_vars,
                 obs_vars, slot_queue>>
  /\ UNCHANGED <<thr_vars, ls_vars, run_timed, run_start, posted_in>>

\* The timer started by start(duration) fires and calls stop().
fft_timer ==
  /\ fft_timers > 0
  /\ fft_timers' = fft_timers - 1
  /\ fft_stop
  /\ timer_found' = [timer_found EXCEPT !["fft"] = fft_status]
  /\ UNCHANGED <<mic_vars, pa_vars, upd_vars, rec_vars, n_calls, last_op,
                 last_exc, cb_vars, obs_vars, slot_queue>>
  /\ UNCHANGED <<thr_vars, ls_vars, run_timed, run_start, posted_in>>

(* ----------------------------- WaveRecorder ---------------------------- *)
\* begin() without the test of self.status.
begin_unguarded(r) ==
  /\ can_call
  /\ \E i \in DOMAIN funcs : funcs[i] = r
  /\ wave_open' = [wave_open EXCEPT ![r] = TRUE]
  /\ frames' = [frames EXCEPT ![r] = <<>>]
  /\ files_opened' = [files_opened EXCEPT ![r] = @ + 1]
  /\ wave_header' = [wave_header EXCEPT
                       ![r] = Some(<<channels, sample_size, sample_rate>>)]
  /\ rec_status' = [rec_status EXCEPT ![r] = STARTED]
  /\ expected' = [expected EXCEPT ![r] = <<>>]
  /\ rec_found' = [rec_found EXCEPT ![r] = <<"begin", rec_status[r]>>]
  /\ called("begin", "none")
  /\ UNCHANGED <<mic_vars, pa_vars, fft_vars, upd_vars, files_closed,
                 rec_timers, cb_vars, obs_vars, slot_queue>>
  /\ UNCHANGED <<thr_vars, ls_vars, run_timed, run_start, posted_in>>

\* close() that closes the file whenever one was opened, whatever the status.
wave_close_any_status(r) ==
  /\ IF files_opened[r] > 0
       THEN /\ wave_open' = [wave_open EXCEPT ![r] = FALSE]
            /\ files_closed' = [files_closed EXCEPT ![r] = @ + 1]
       ELSE UNCHANGED <<wave_open, files_closed>>
  /\ rec_status' = [rec_status EXCEPT ![r] = FINISHED]
  /\ UNCHANGED <<frames, files_opened, wave_header, expected>>

constructed(r) == \E i \in DOMAIN funcs : funcs[i] = r

\* WaveRecorder.begin of a recorder that has been constructed: a new file
\* with the channels, sample width and rate of the microphone.
begin(r) ==
  /\ can_call
  /\ constructed(r)
  /\ IF rec_status[r] # STARTED
       THEN /\ wave_open' = [wave_open EXCEPT ![r] = TRUE]
            /\ frames' = [frames EXCEPT ![r] = <<>>]
            /\ files_opened' = [files_opened EXCEPT ![r] = @ + 1]
            /\ wave_header' = [wave_header EXCEPT
                                 ![r] = Some(<<channels, sample_size, sample_rate>>)]
            /\ rec_status' = [rec_status EXCEPT ![r] = STARTED]
            /\ expected' = [expected EXCEPT ![r] = <<>>]
       ELSE UNCHANGED <<wave_open, frames, files_opened, wave_header,
                        rec_status, expected>>
  /\ rec_found' = [rec_found EXCEPT ![r] = <<"begin", rec_status[r]>>]
  /\ called("begin", "none")
  /\ UNCHANGED <<mic_vars, pa_vars, fft_vars, upd_vars, files_closed,
                 rec_timers, cb_vars, obs_vars, slot_queue>>
  /\ UNCHANGED <<thr_vars, ls_vars, run_timed, run_start, posted_in>>

\* The body of WaveRecorder.close: close the file while STARTED, then
\* FINISHED.
wave_close(r) ==
  /\ IF rec_status[r] = STARTED
       THEN /\ wave_open' = [wave_open EXCEPT ![r] = FALSE]
            /\ files_closed' = [files_closed EXCEPT ![r] = @ + 1]
       ELSE UNCHANGED <<wave_open, files_closed>>
  /\ rec_status' = [rec_status EXCEPT ![r] = FINISHED]
  /\ UNCHANGED <<frames, files_opened, wave_header, expected>>

\* WaveRecorder.close of a recorder that has been constructed, called by
\* the script.
rec_close(r) ==
  /\ can_call
  /\ constructed(r)
  /\ wave_close(r)
  /\ rec_found' = [rec_found EXCEPT ![r] = <<"close", rec_status[r]>>]
  /\ called("rec_close", "none")
  /\ UNCHANGED <<mic_vars, pa_vars, fft_vars, upd_vars, rec_timers, cb_vars,
                 obs_vars, slot_queue>>
  /\ UNCHANGED <<thr_vars, ls_vars, run_timed, run_start, posted_in>>

\* close_after_duration that starts two timers.
close_after_duration_twice(r) ==
  /\ can_call
  /\ constructed(r)
  /\ rec_timers' = [rec_timers EXCEPT ![r] = @ + 2]
  /\ called("close_after_duration", "none")
  /\ UNCHANGED <<mic_vars, pa_vars, fft_vars, upd_vars, rec_status, wave_open,
                 frames, files_opened, files_closed, wave_header, rec_found,
                 expected, cb_vars, obs_vars, slot_queue>>
  /\ UNCHANGED <<thr_vars, ls_vars, run_timed, run_start, posted_in>>

\* WaveRecorder.close_after_duration: start a timer and return.
close_after_duration(r) ==
  /\ can_call
  /\ constructed(r)
  /\ rec_timers' = [rec_timers EXCEPT ![r] = @ + 1]
  /\ called("close_after_duration", "none")
  /\ UNCHANGED <<mic_vars, pa_vars, fft_vars, upd_vars, rec_status, wave_open,
                 frames, files_opened, files_closed, wave_header, rec_found,
                 expected, cb_vars, obs_vars, slot_queue>>
  /\ UNCHANGED <<thr_vars, ls_vars, run_timed, run_start, posted_in>>

\* The timer started by close_after_duration fires and calls close().
rec_timer(r) ==
  /\ rec_timers[r] > 0
  /\ rec_timers' = [rec_timers EXCEPT ![r] = @ - 1]
  /\ wave_close(r)
  /\ timer_found' = [timer_found EXCEPT ![r] = rec_status[r]]
  /\ UNCHANGED <<mic_vars, pa_vars, fft_vars, upd_vars, rec_found, n_calls,
                 last_op, last_exc, cb_vars, obs_vars, slot_queue>>
  /\ UNCHANGED <<thr_vars, ls_vars, run_timed, run_start, posted_in>>

(* -------------------------------- LS100 -------------------------------- *)
\* A reply is the string readline returned, one character per element.
error_reply(a, b) == <<"E", "R", a, b, "\r", "\n">>

\* self.codes: the error replies the class knows
codes ==
  (error_reply("0", "0") :> "Unknown command") @@
  (error_reply("0", "1") :> "Setting error") @@
  (error_reply("1", "1") :> "Memory value error") @@
  (error_reply("1", "0") :> "Measuring range over") @@
  (error_reply("1", "9") :> "Display range over") @@
  (error_reply("2", "0") :> "EEPROM error (the photometer needs repair)") @@
  (error_reply("3", "0") :> "Photometer battery exhausted")

\* What self.com.readline() can return: nothing within the timeout, a
\* measurement, a bare OK, a known and an unknown error, a broken reply.
Replies ==
  { <<>>,
    <<"O", "K", "0", "0", " ", "7", "\r", "\n">>,
    <<"O", "K", "0", "0", " ", "1", "2", "\r", "\n">>,
    <<"O", "K", "\r", "\n">>,
    error_reply("1", "0"),
    error_reply("9", "9"),
    <<"O">> }

whitespace == {" ", "\t", "\r", "\n"}

digit ==
  ("0" :> 0) @@ ("1" :> 1) @@ ("2" :> 2) @@ ("3" :> 3) @@ ("4" :> 4) @@
  ("5" :> 5) @@ ("6" :> 6) @@ ("7" :> 7) @@ ("8" :> 8) @@ ("9" :> 9)

\* str.split(): the maximal runs of characters that are not whitespace.
\* word is the run being read.
RECURSIVE split_from(_, _)
split_from(msg, word) ==
  IF msg = <<>>
    THEN IF word = <<>> THEN <<>> ELSE <<word>>
    ELSE IF Head(msg) \in whitespace
           THEN IF word = <<>>
                  THEN split_from(Tail(msg), <<>>)
                  ELSE <<word>> \o split_from(Tail(msg), <<>>)
           ELSE split_from(Tail(msg), Append(word, Head(msg)))

split(msg) == split_from(msg, <<>>)

\* float(word) for a word of decimal digits; None stands for ValueError.
RECURSIVE digits_value(_, _)
digits_value(word, acc) ==
  IF word = <<>>
    THEN acc
    ELSE digits_value(Tail(word), 10 * acc + digit[Head(word)])

float(word) ==
  IF word # <<>> /\ \A i \in DOMAIN word : word[i] \in DOMAIN digit
    THEN Some(digits_value(word, 0))
    ELSE None

\* msg[0:2]
first_two(msg) == SubSeq(msg, 1, IF Len(msg) < 2 THEN Len(msg) ELSE 2)

\* LS100.checkOK: what it returns, logs and raises.
checkOK(msg) ==
  IF first_two(msg) # <<"O", "K">>
    THEN IF msg = <<>>
           THEN [ret |-> FALSE, exc |-> "none", log |-> <<"No reply from LS100">>]
           ELSE IF msg \in DOMAIN codes
                  THEN [ret |-> FALSE, exc |-> "none", log |-> <<codes[msg]>>]
                  ELSE [ret |-> FALSE, exc |-> "KeyError", log |-> <<>>]
    ELSE [ret |-> TRUE, exc |-> "none", log |-> <<>>]

\* LS100.setMode and LS100.clearMemory: send a command, read the reply and
\* return checkOK(reply).
command(name, reply) ==
  /\ can_call
  /\ ls_reply' = reply
  /\ ls_ret' = checkOK(reply).ret
  /\ ls_log' = ls_log \o checkOK(reply).log
  /\ ls_last' = lastLum
  /\ called(name, checkOK(reply).exc)
  /\ UNCHANGED <<lastLum, ls_lum, mic_vars, pa_vars, fft_vars, upd_vars,
                 rec_vars, cb_vars, obs_vars, slot_queue, thr_vars,
                 posted_in, run_timed, run_start>>

setMode(reply) == command("setMode", reply)

clearMemory(reply) == command("clearMemory", reply)

\* LS100.measure: the luminance is the last word of an accepted reply.
\* Nothing in the method assigns self.lastLum.
measure(reply) ==
  /\ can_call
  /\ ls_reply' = reply
  /\ ls_log' = ls_log \o checkOK(reply).log
  /\ ls_last' = lastLum
  /\ IF checkOK(reply).exc # "none"
       THEN ls_lum' = None /\ called("measure", checkOK(reply).exc)
       ELSE IF checkOK(reply).ret
              THEN LET words == split(reply)
                       lum == float(words[Len(words)])
                   IN IF lum = None
                        THEN ls_lum' = None /\ called("measure", "ValueError")
                        ELSE ls_lum' = lum /\ called("measure", "none")
              ELSE ls_lum' = None /\ called("measure", "none")
  /\ UNCHANGED <<lastLum, ls_ret, mic_vars, pa_vars, fft_vars, upd_vars,
                 rec_vars, cb_vars, obs_vars, slot_queue, thr_vars, posted_in,
                 run_timed, run_start>>

(* ------------------- the threads, statement by statement ---------------- *)
\* FFTPeak.start up to the Timer: self._thread.start(), and, for a duration
\* that is true, threading.Timer(duration, self.stop).start().
start_thread(duration) ==
  /\ can_call
  /\ thread_running' = TRUE
  /\ fft_timers' = IF duration # None /\ duration # Some(0)
                     THEN fft_timers + 1 ELSE fft_timers
  /\ start_pc' = "status"
  /\ run_timed' = (\/ duration # None /\ duration # Some(0)
                   \/ fft_status = STARTED /\ run_timed)
  /\ run_start' = IF fft_status = STARTED THEN run_start ELSE Len(processed)
  /\ starts' = starts + 1
  /\ after_stop' = FALSE
  /\ called("start", "none")
  /\ UNCHANGED <<mic_vars, pa_vars, data, f0, fft_status, upd_vars, rec_vars,
                 cb_vars, obs_vars, slot_queue, stop_pc, quit_req, in_update,
                 add_pc, close_pc, stop_return>>
  /\ UNCHANGED <<ls_vars, posted_in>>

\* The last statement of FFTPeak.start: self.status = STARTED.
start_status ==
  /\ start_pc = "status"
  /\ fft_status' = STARTED
  /\ start_pc' = "idle"
  /\ UNCHANGED <<mic_vars, pa_vars, data, f0, thread_running, fft_timers,
                 upd_vars, rec_vars, call_vars, cb_vars, obs_vars, slot_queue,
                 stop_pc, quit_req, in_update, add_pc, close_pc, stop_return,
                 after_stop, starts>>
  /\ UNCHANGED <<ls_vars, run_timed, run_start, posted_in>>

\* Thread t enters FFTPeak.stop: the script by a call, the timer thread
\* when a Timer of start(duration) fires.  If the status is STARTED it
\* calls self._thread.quit() and then waits; otherwise stop() returns.
stop_check(t) ==
  /\ stop_pc[t] = "idle"
  /\ IF t = "script"
       THEN /\ can_call
            /\ called("stop", "none")
            /\ UNCHANGED fft_timers
       ELSE /\ fft_timers > 0
            /\ fft_timers' = fft_timers - 1
            /\ timer_found' = [timer_found EXCEPT !["fft"] = fft_status]
            /\ UNCHANGED <<n_calls, last_op, last_exc>>
  /\ IF fft_status = STARTED
       THEN /\ quit_req' = thread_running
            /\ stop_pc' = [stop_pc EXCEPT ![t] = "wait"]
            /\ UNCHANGED <<stop_return, after_stop>>
       ELSE /\ stop_return' = IF in_update THEN "update" ELSE "idle"
            /\ after_stop' = TRUE
            /\ UNCHANGED <<quit_req, stop_pc>>
  /\ UNCHANGED <<mic_vars, pa_vars, data, f0, fft_status, thread_running,
                 upd_vars, rec_vars, cb_vars, obs_vars, slot_queue, start_pc,
                 in_update, add_pc, close_pc, starts>>
  /\ UNCHANGED <<ls_vars, run_timed, run_start, posted_in>>

\* self._thread.wait() returns once the thread has finished; then
\* self.status = FINISHED and stop() returns.
stop_wait(t) ==
  /\ stop_pc[t] = "wait"
  /\ ~thread_running
  /\ fft_status' = FINISHED
  /\ stop_pc' = [stop_pc EXCEPT ![t] = "idle"]
  /\ stop_return' = IF in_update THEN "update" ELSE "idle"
  /\ after_stop' = TRUE
  /\ UNCHANGED <<mic_vars, pa_vars, data, f0, thread_running, fft_timers,
                 upd_vars, rec_vars, call_vars, cb_vars, obs_vars, slot_queue,
                 start_pc, quit_req, in_update, add_pc, close_pc, starts>>
  /\ UNCHANGED <<ls_vars, run_timed, run_start, posted_in>>

\* The event loop of the worker thread takes a posted buffer and enters the
\* _update slot, unless it has been told to quit.
update_begin ==
  /\ thread_running
  /\ ~quit_req
  /\ ~in_update
  /\ slot_queue # <<>>
  /\ in_update' = TRUE
  /\ UNCHANGED <<mic_vars, pa_vars, fft_vars, upd_vars, rec_vars, call_vars,
                 cb_vars, obs_vars, slot_queue, start_pc, stop_pc, quit_req,
                 add_pc, close_pc, stop_return, after_stop, starts>>
  /\ UNCHANGED <<ls_vars, run_timed, run_start, posted_in>>

\* _update runs to its end and returns to the event loop.
update_end ==
  /\ in_update
  /\ run_update
  /\ in_update' = FALSE
  /\ UNCHANGED <<mic_vars, pa_vars, fft_status, thread_running, fft_timers,
                 rec_vars, call_vars, cb_vars, obs_vars, start_pc, stop_pc,
                 quit_req, add_pc, close_pc, stop_return, after_stop, starts>>
  /\ UNCHANGED <<ls_vars, run_timed, run_start>>

\* The event loop, back from any slot, sees the quit and the thread ends.
thread_exit ==
  /\ thread_running
  /\ quit_req
  /\ ~in_update
  /\ thread_running' = FALSE
  /\ quit_req' = FALSE
  /\ UNCHANGED <<mic_vars, pa_vars, data, f0, fft_status, fft_timers,
                 upd_vars, rec_vars, call_vars, cb_vars, obs_vars, slot_queue,
                 start_pc, stop_pc, in_update, add_pc, close_pc, stop_return,
                 after_stop, starts>>
  /\ UNCHANGED <<ls_vars, run_timed, run_start, posted_in>>

\* The driver's thread, broadcasting buffer b of stream s, enters
\* WaveRecorder._add_data of r and tests self.status.
add_data_check(s, r, b) ==
  /\ s \in pa_active
  /\ status = STARTED
  /\ n_cb < MaxCallbacks
  /\ constructed(r)
  /\ add_pc[r] = None
  /\ n_cb' = n_cb + 1
  /\ cb_status' = status
  /\ cb_buffer' = b
  /\ add_pc' = [add_pc EXCEPT
                  ![r] = IF rec_status[r] = STARTED THEN Some(b) ELSE None]
  /\ UNCHANGED <<mic_vars, pa_vars, fft_vars, upd_vars, rec_vars, call_vars,
                 cb_return, cb_reached, cb_listeners, cb_failed, cb_order,
                 produced, obs_vars, slot_queue, start_pc, stop_pc, quit_req, in_update,
                 close_pc, stop_return, after_stop, starts>>
  /\ UNCHANGED <<ls_vars, run_timed, run_start, posted_in>>

\* self._wave_file.writeframes(data): on a file that has been closed it
\* raises, and the exception ends the callbacks of the stream.
add_data_write(r) ==
  /\ add_pc[r] # None
  /\ add_pc' = [add_pc EXCEPT ![r] = None]
  /\ IF wave_open[r]
       THEN /\ frames' = [frames EXCEPT ![r] = Append(@, add_pc[r][1])]
            /\ cb_return' = paContinue
            /\ UNCHANGED pa_active
       ELSE /\ cb_return' = "raised"
            /\ pa_active' = {}
            /\ UNCHANGED frames
  /\ UNCHANGED <<mic_vars, pa_created, pa_open, pa_closes, fft_vars, upd_vars,
                 rec_status, wave_open, files_opened, files_closed,
                 wave_header, rec_timers, rec_found, expected, call_vars, n_cb,
                 cb_status, cb_buffer, cb_reached, cb_listeners, cb_failed,
                 cb_order, produced, obs_vars, slot_queue, start_pc, stop_pc, quit_req,
                 in_update, close_pc, stop_return, after_stop, starts>>
  /\ UNCHANGED <<ls_vars, run_timed, run_start, posted_in>>

\* Thread t enters WaveRecorder.close of r: the script by a call, the timer
\* thread when a Timer of close_after_duration fires.  While the status is
\* STARTED it calls self._wave_file.close(), whether or not another thread
\* has already done so.
close_file(t, r) ==
  /\ close_pc[t] = None
  /\ constructed(r)
  /\ IF t = "script"
       THEN /\ can_call
            /\ called("rec_close", "none")
            /\ UNCHANGED rec_timers
       ELSE /\ rec_timers[r] > 0
            /\ rec_timers' = [rec_timers EXCEPT ![r] = @ - 1]
            /\ timer_found' = [timer_found EXCEPT ![r] = rec_status[r]]
            /\ UNCHANGED <<n_calls, last_op, last_exc>>
  /\ IF rec_status[r] = STARTED
       THEN /\ wave_open' = [wave_open EXCEPT ![r] = FALSE]
            /\ files_closed' = [files_closed EXCEPT ![r] = @ + 1]
       ELSE UNCHANGED <<wave_open, files_closed>>
  /\ close_pc' = [close_pc EXCEPT ![t] = Some(r)]
  /\ UNCHANGED <<mic_vars, pa_vars, fft_vars, upd_vars, rec_status, frames,
                 files_opened, wave_header, rec_found, expected, cb_vars,
                 obs_vars, slot_queue, start_pc, stop_pc, quit_req, in_update,
                 add_pc, stop_return, after_stop, starts>>
  /\ UNCHANGED <<ls_vars, run_timed, run_start, posted_in>>

\* The last statement of WaveRecorder.close: self.status = FINISHED.
close_status(t) ==
  /\ close_pc[t] # None
  /\ rec_status' = [rec_status EXCEPT ![close_pc[t][1]] = FINISHED]
  /\ close_pc' = [close_pc EXCEPT ![t] = None]
  /\ UNCHANGED <<mic_vars, pa_vars, fft_vars, upd_vars, wave_open, frames,
                 files_opened, files_closed, wave_header, rec_timers,
                 rec_found, expected, call_vars, cb_vars, obs_vars, slot_queue,
                 start_pc, stop_pc, quit_req, in_update, add_pc, stop_return,
                 after_stop, starts>>
  /\ UNCHANGED <<ls_vars, run_timed, run_start, posted_in>>

(* ---------------------------- specification ---------------------------- *)
\* The microphone, its listeners and the recorders.
NextSource ==
  \/ \E r \in Recorders : register(r)
  \/ \E d \in Durations : open_stream(d)
  \/ open_started
  \/ close
  \/ mic_timer
  \/ \E s \in pa_active, b \in Buffers, i \in 0 .. Len(funcs) :
       capture_buffer(s, b, i)
  \/ \E r \in Recorders : begin(r)
  \/ \E r \in Recorders : rec_close(r)

\* The microphone and the peak detector that listens to it.
NextPeak ==
  \/ \E d \in Durations : open_stream(d)
  \/ open_started
  \/ close
  \/ \E s \in pa_active, b \in Buffers : capture_buffer(s, b, 0)
  \/ update
  \/ \E d \in Durations : start(d)
  \/ stop
  \/ fft_timer

\* The microphone opened for an unlimited time, and two recorders.
NextRecorder ==
  \/ open_stream(None)
  \/ open_started
  \/ \E s \in pa_active, b \in Buffers, i \in 0 .. Len(funcs) :
       capture_buffer(s, b, i)
  \/ \E r \in Recorders : begin(r)
  \/ \E r \in Recorders : rec_close(r)

\* The three kinds of session and their duration timers, without audio.
NextTimers ==
  \/ \E d \in Durations : open_stream(d)
  \/ open_started
  \/ close
  \/ mic_timer
  \/ \E d \in Durations : start(d)
  \/ stop
  \/ fft_timer
  \/ \E r \in Recorders : begin(r)
  \/ \E r \in Recorders : rec_close(r)
  \/ \E r \in Recorders : close_after_duration(r)
  \/ \E r \in Recorders : rec_timer(r)

\* The peak detector with the script, a Timer and the worker thread
\* interleaved statement by statement.
NextEstimator ==
  \/ open_stream(None)
  \/ open_started
  \/ \E s \in pa_active, b \in Buffers : capture_buffer(s, b, 0)
  \/ \E d \in Durations : start_thread(d)
  \/ start_status
  \/ \E t \in Threads : stop_check(t)
  \/ \E t \in Threads : stop_wait(t)
  \/ update_begin
  \/ update_end
  \/ thread_exit

\* The recorders with the script, a Timer and the driver's thread
\* interleaved statement by statement.
NextWriter ==
  \/ open_stream(None)
  \/ open_started
  \/ \E r \in Recorders : begin(r)
  \/ \E r \in Recorders : close_after_duration(r)
  \/ \E s \in pa_active, r \in Recorders, b \in Buffers :
       add_data_check(s, r, b)
  \/ \E r \in Recorders : add_data_write(r)
  \/ \E t \in Threads, r \in Recorders : close_file(t, r)
  \/ \E t \in Threads : close_status(t)

\* The microphone alone: the script, the Timer of open(duration) and the
\* driver's callbacks.
NextAutoClose ==
  \/ \E d \in Durations : open_stream(d)
  \/ open_started
  \/ close
  \/ mic_timer
  \/ \E s \in pa_active, b \in Buffers : capture_buffer(s, b, 0)

\* The recorders alone: the script and the Timers of close_after_duration.
NextRecorderTimer ==
  \/ \E r \in Recorders : begin(r)
  \/ \E r \in Recorders : rec_close(r)
  \/ \E r \in Recorders : close_after_duration(r)
  \/ \E r \in Recorders : rec_timer(r)

\* The photometer: commands and the replies the device may give.
NextLS100 ==
  \/ \E reply \in Replies : setMode(reply)
  \/ \E reply \in Replies : clearMemory(reply)
  \/ \E reply \in Replies : measure(reply)

Next ==
  \/ NextLS100
  \/ NextAutoClose
  \/ NextRecorderTimer
  \/ NextSource
  \/ NextPeak
  \/ NextRecorder
  \/ NextTimers
  \/ NextEstimator
  \/ NextWriter

Spec == Init /\ [][Next]_vars
SpecSource == Init /\ [][NextSource]_vars
SpecPeak == Init /\ [][NextPeak]_vars
SpecRecorder == InitRecorders /\ [][NextRecorder]_vars
SpecTimers == InitRecorders /\ [][NextTimers]_vars
SpecEstimator == Init /\ [][NextEstimator]_vars
SpecWriter == InitRecorders /\ [][NextWriter]_vars
SpecLS100 == Init /\ [][NextLS100]_vars
\* A thread that can run does run: the caller goes on to the end of open(),
\* and a Timer that has been started fires.
SpecAutoClose ==
  /\ Init
  /\ [][NextAutoClose]_vars
  /\ WF_vars(open_started)
  /\ WF_vars(mic_timer)
\* A Timer that has been started fires.
SpecRecorderTimer ==
  /\ InitRecorders
  /\ [][NextRecorderTimer]_vars
  /\ \A r \in Recorders : WF_vars(rec_timer(r))

(* ------------------------------- claims -------------------------------- *)
\* The buffers funcs[i] must have seen: those broadcast since it registered.
since_registered(i) == SubSeq(produced, registered_at[i] + 1, Len(produced))

\* The bins of the searched band [min_idx, max_idx) of the spectrum of
\* window d that are strictly greater than both neighbours in the band.
band_local_maxima(d) ==
  LET spec == freq_spec(chain(d)) IN
  {k \in DOMAIN spec :
     /\ min_idx <= k - 1 /\ k + 1 < max_idx
     /\ spec[k - 1] < spec[k] /\ spec[k + 1] < spec[k]}

\* C1: every listener registered on the broadcaster has observed exactly
\* the buffers captured since it registered, in capture order, with no gap
\* and no duplicate.
C1_ListenersObserveProducerSequence ==
  \A i \in DOMAIN funcs : observed[i] = since_registered(i)

\* C2: when a listener raises during a broadcast, every listener registered
\* after it is still called with the buffer and the exception does not leave
\* the broadcast.
C2_ListenerFailureContained ==
  cb_failed # 0 => cb_reached = cb_listeners /\ cb_return # "raised"

\* C3: open() on a source whose stream is open raises
\* SoundCaptureException and leaves the stream handle, the status, the
\* pending timers and the set of open streams as they were.
C3_ReopenRaisesAndChangesNothing ==
  [][(/\ audio_stream # None
      /\ audio_stream[1] \in pa_open
      /\ n_calls' = n_calls + 1
      /\ last_op' = "open")
     => (/\ last_exc' = "SoundCaptureException"
         /\ UNCHANGED <<audio_stream, status, mic_timers, open_pc, pa_vars>>)]_vars

C3_Witness ==
  /\ last_op = "open"
  /\ last_exc = "SoundCaptureException"
  /\ audio_stream # None
  /\ audio_stream[1] \in pa_open
  /\ status = STARTED

\* C4: at most one underlying input stream is open, whatever open() and
\* close() calls and timer-initiated closes have happened.
C4_AtMostOneOpenStream == Cardinality(pa_open) <= 1

\* a second open() after open(duration) and the timer's close()
C4_Witness ==
  /\ n_calls = 2
  /\ last_op = "open"
  /\ last_exc = "SoundCaptureException"
  /\ close_from = STARTED
  /\ pa_created = 1
  /\ pa_open = {}

\* C5: the callback returns by the status it reads: STARTED -> the buffer
\* goes to all listeners and paContinue is returned; FINISHED -> nothing is
\* broadcast and paComplete is returned; otherwise nothing is broadcast and
\* paAbort is returned.
C5_ReturnSignalFollowsStatus ==
  n_cb > 0 =>
    /\ cb_status = STARTED =>
         /\ cb_return = paContinue
         /\ cb_reached = cb_listeners
         /\ produced # <<>> /\ produced[Len(produced)] = cb_buffer
    /\ cb_status = FINISHED => cb_return = paComplete /\ cb_reached = 0
    /\ cb_status \notin {STARTED, FINISHED} =>
         cb_return = paAbort /\ cb_reached = 0

\* C6: close() from STARTED closes the stream and sets FINISHED; from any
\* other status it only sets FINISHED; no stream is ever closed twice.
C6_CloseIdempotent ==
  [][((n_calls' = n_calls + 1 /\ last_op' = "close") \/ mic_timers' < mic_timers)
     => (/\ status' = FINISHED
         /\ IF status = STARTED
              THEN /\ audio_stream[1] \in pa_open
                   /\ pa_open' = pa_open \ {audio_stream[1]}
                   /\ pa_closes'[audio_stream[1]] = pa_closes[audio_stream[1]] + 1
              ELSE UNCHANGED pa_vars
         /\ \A s \in DOMAIN pa_closes' : pa_closes'[s] <= 1)]_vars

\* a close() that found FINISHED after the stream had been closed
C6_Witness ==
  /\ last_op = "close"
  /\ close_from = FINISHED
  /\ status = FINISHED
  /\ pa_closes = <<1>>
  /\ pa_open = {}

\* C7: the window never holds more than N buffers, and once N buffers have
\* been processed it holds the N most recently processed, oldest first.
C7_WindowIsLastN ==
  /\ Len(data) <= buffer_count
  /\ Len(processed) >= buffer_count =>
       data = SubSeq(processed, Len(processed) - buffer_count + 1, Len(processed))
  /\ Len(processed) < buffer_count => data = processed

\* more than N buffers processed, the oldest of them evicted
C7_Witness ==
  /\ Len(processed) > buffer_count
  /\ Len(data) = buffer_count
  /\ data # SubSeq(processed, 1, buffer_count)

\* C8: after an update on a full window whose band has a local maximum, f0
\* is the frequency of the local maximum of largest magnitude, the lowest
\* bin among equals.
C8_PeakIsLargestLocalMaximum ==
  (Len(processed) >= buffer_count /\ band_local_maxima(data) # {}) =>
    LET spec == freq_spec(chain(data))
        peaks == band_local_maxima(data)
    IN \E k \in peaks :
         /\ \A j \in peaks : spec[j] <= spec[k]
         /\ \A j \in peaks : spec[j] = spec[k] => k <= j
         /\ f0 = Some(x_values[k])

\* C9: f0 is None while fewer than N buffers have been processed, and it
\* changes from None only in an update that leaves a window of exactly N
\* buffers whose band has a local maximum.
C9_NoPeakBeforeFullWindow ==
  /\ [](Len(processed) < buffer_count => f0 = None)
  /\ [][(f0 = None /\ f0' # None)
        => (/\ processed' # processed
            /\ Len(data') = buffer_count
            /\ band_local_maxima(data') # {})]_vars

\* some, but fewer than N, buffers processed and no estimate yet
C9_Witness ==
  /\ Len(processed) > 0
  /\ Len(processed) < buffer_count
  /\ data = processed
  /\ f0 = None

\* C10: an update on a full window whose band has no local maximum leaves
\* f0 as it was, emits nothing on f0_ready and raises nothing.
C10_NoPeakLeavesEstimate ==
  (Len(processed) >= buffer_count /\ band_local_maxima(data) = {}) =>
    /\ f0 = upd_f0
    /\ Len(f0_ready) = upd_ready
    /\ upd_exc = "none"

\* C11: f0_ready is emitted exactly once by an update that finds a peak (a
\* full window whose band has a local maximum) and not at all by any other
\* update, and the value emitted is the f0 the update leaves.
C11_ReadyOncePerPeak ==
  Len(processed) > 0 =>
    IF Len(processed) >= buffer_count /\ band_local_maxima(data) # {}
      THEN /\ Len(f0_ready) = upd_ready + 1
           /\ f0 # None
           /\ f0_ready[Len(f0_ready)] = f0[1]
      ELSE Len(f0_ready) = upd_ready

\* the recorders registered once, by their constructor
registered_once ==
  {r \in Recorders : Cardinality({i \in DOMAIN funcs : funcs[i] = r}) = 1}

\* C12: the file of a recorder holds exactly the buffers broadcast while it
\* was armed, in order (a buffer whose write by this recorder failed with
\* an I/O error aside); buffers broadcast while it is not armed change no
\* file; the header is the microphone's channels, sample width and rate.
C12_FileIsArmedBuffers ==
  \A r \in registered_once :
    /\ frames[r] = expected[r]
    /\ files_opened[r] = 0 => frames[r] = <<>> /\ wave_header[r] = None
    /\ files_opened[r] > 0 =>
         wave_header[r] = Some(<<channels, sample_size, sample_rate>>)

\* C13: begin() on an armed recorder opens no file, keeps the open file and
\* what was written to it, and leaves the status armed; no more files are
\* opened than sessions are begun.
C13_BeginWhileArmedIsNoOp ==
  [][(n_calls' = n_calls + 1 /\ last_op' = "begin")
     => \A r \in Recorders :
          rec_status[r] = STARTED =>
            /\ rec_status'[r] = STARTED
            /\ wave_open'[r] = wave_open[r]
            /\ frames'[r] = frames[r]
            /\ files_opened'[r] = files_opened[r]
            /\ files_closed'[r] = files_closed[r]
            /\ wave_header'[r] = wave_header[r]]_vars

\* a begin() that found the recorder armed, with buffers already written
C13_Witness ==
  \E r \in Recorders :
    /\ rec_found[r] = <<"begin", STARTED>>
    /\ rec_status[r] = STARTED
    /\ frames[r] # <<>>
    /\ files_opened[r] = 1

\* C14: a begin() that finds the recorder Closed opens no file and leaves
\* it Closed.
C14_ClosedIsTerminal ==
  \A r \in Recorders :
    rec_found[r] = <<"begin", FINISHED>> =>
      rec_status[r] = FINISHED /\ ~wave_open[r]

\* C15: a close() that finds the recorder Closed does nothing to its file
\* and leaves it Closed; the file of a closed session has been closed once.
C15_RecorderCloseIdempotent ==
  [][(n_calls' = n_calls + 1 /\ last_op' = "rec_close")
     => \A r \in Recorders :
          /\ rec_status[r] = FINISHED =>
               /\ rec_status'[r] = FINISHED
               /\ wave_open'[r] = wave_open[r]
               /\ frames'[r] = frames[r]
               /\ files_closed'[r] = files_closed[r]
          /\ rec_status'[r] = FINISHED =>
               files_closed'[r] = files_opened'[r] /\ ~wave_open'[r]]_vars

\* a second close() after the close() of an armed recorder
C15_Witness ==
  \E r \in Recorders :
    /\ rec_found[r] = <<"close", FINISHED>>
    /\ files_opened[r] = 1
    /\ files_closed[r] = 1
    /\ rec_status[r] = FINISHED

C19_StartWhileRunningIsNoOp ==
  [][(n_calls' = n_calls + 1 /\ last_op' = "start" /\ fft_status = STARTED)
     => UNCHANGED <<fft_status, data, f0, thread_running, fft_timers>>]_vars

\* C16: while _add_data of a recorder is between its test of the status
\* and its writeframes, the file stays open and the recorder armed: no
\* close() closes the file or completes under a write in progress, so no
\* write reaches a closed file.
C16_CloseExcludesWrite ==
  \A r \in Recorders :
    add_pc[r] # None => wave_open[r] /\ rec_status[r] = STARTED

\* C17: no stop() returns while _update is running, and once a stop() has
\* returned nothing changes f0 or emits f0_ready until the next start().
C17_StopWaitsForUpdate ==
  [][/\ stop_return' # "update"
     /\ after_stop => f0' = f0 /\ f0_ready' = f0_ready]_vars

\* C20: after a single start(duration) has returned and its timer has fired
\* and run stop() to its end, the peak detector is no longer STARTED.
C20_TimerStopsEstimator ==
  (/\ starts = 1
   /\ start_pc = "idle"
   /\ timer_found["fft"] # "none"
   /\ fft_timers = 0
   /\ stop_pc["timer"] = "idle")
    => fft_status # STARTED

\* C21: an open(duration) that has created its stream leads to the status
\* FINISHED with no stream open, whatever the callbacks and the caller do
\* in between and with no close() from the caller needed.
C21_OpenWithDurationCloses ==
  (open_pc = "created" /\ open_dur # None)
    ~> (status = FINISHED /\ pa_open = {})

\* the only call was open(duration); its timer found STARTED and closed
C21_Witness ==
  /\ n_calls = 1
  /\ last_op = "open"
  /\ timer_found["mic"] = STARTED
  /\ status = FINISHED
  /\ pa_open = {}
  /\ pa_closes = <<1>>
  /\ produced # <<>>

\* C22: close_after_duration starts exactly one timer and returns with the
\* recorder and its file as they were; a timer that fires is one call of
\* close(); and an armed recorder with a timer pending becomes FINISHED with
\* its file closed.
C22_CloseAfterDuration ==
  /\ [][\A r \in Recorders :
          /\ rec_timers'[r] > rec_timers[r]
               => /\ rec_timers'[r] = rec_timers[r] + 1
                  /\ last_op' = "close_after_duration"
                  /\ rec_status'[r] = rec_status[r]
                  /\ wave_open'[r] = wave_open[r]
                  /\ files_closed'[r] = files_closed[r]
          /\ rec_timers'[r] < rec_timers[r]
               => /\ rec_timers'[r] = rec_timers[r] - 1
                  /\ rec_status'[r] = FINISHED
                  /\ ~wave_open'[r]
                  /\ files_closed'[r] =
                       files_closed[r] + IF rec_status[r] = STARTED THEN 1 ELSE 0
       ]_vars
  /\ \A r \in Recorders :
       (rec_status[r] = STARTED /\ rec_timers[r] > 0)
         ~> (rec_status[r] = FINISHED /\ ~wave_open[r])

\* begin() and close_after_duration(), then the timer closed the file
C22_Witness ==
  \E r \in Recorders :
    /\ rec_found[r] = <<"begin", NOT_STARTED>>
    /\ last_op = "close_after_duration"
    /\ timer_found[r] = STARTED
    /\ rec_timers[r] = 0
    /\ rec_status[r] = FINISHED
    /\ files_opened[r] = 1
    /\ files_closed[r] = 1

\* C23: a broadcast invokes every registered position once, in
\* registration order, each with the buffer of the broadcast: a listener
\* registered k times holds k positions and is invoked k times.
C23_BroadcastInRegistrationOrder ==
  cb_status = STARTED =>
    /\ cb_order = [i \in 1 .. cb_listeners |-> i]
    /\ \A i \in 1 .. cb_listeners :
         /\ observed[i] # <<>>
         /\ observed[i][Len(observed[i])] = cb_buffer

\* C24: checkOK never raises, and returns TRUE exactly for the replies
\* that begin with OK (setMode and clearMemory return what checkOK returns).
C24_CheckOKReturnsBoolean ==
  last_op \in {"setMode", "clearMemory"} =>
    /\ last_exc = "none"
    /\ ls_ret \in BOOLEAN
    /\ ls_ret = (first_two(ls_reply) = <<"O", "K">>)

\* C25: after a measure() that returned a luminance, lastLum is that
\* luminance; after a measure() that failed, lastLum is what it was.
C25_LastLumIsMeasured ==
  last_op = "measure" =>
    IF last_exc = "none" /\ ls_lum # None
      THEN lastLum = ls_lum
      ELSE lastLum = ls_last

\* C26: whenever f0 holds a value, it is the frequency of a bin strictly
\* inside the band (min_idx < k < max_idx - 1) of the window the last
\* assigning update saw, larger than both its neighbours.
C26_PeakStrictlyInsideBand ==
  [][f0' # f0 =>
       LET spec == freq_spec(chain(data')) IN
       \E k \in DOMAIN spec :
         /\ min_idx < k /\ k < max_idx - 1
         /\ spec[k] > spec[k - 1] /\ spec[k] > spec[k + 1]
         /\ f0' = Some(x_values[k])]_vars

\* C27: every buffer the peak detector appends to its window was broadcast
\* while its status was STARTED.
C27_WindowOnlyFromRunning ==
  [][processed' # processed
       => /\ posted_in # <<>>
          /\ posted_in[1]
          /\ data' # <<>>
          /\ data'[Len(data')] = slot_queue[1]]_vars

\* C28: as long as close() has not been called on the microphone, by the
\* script or by a timer, no callback returns paAbort.
C28_NoAbortBeforeClose ==
  close_from = "none" => cb_return # paAbort

\* C29: a timer that fires while the peak detector is STARTED in a run
\* none of whose start() calls started a timer (the timer is left from an
\* earlier run) does not stop it.
C29_OldTimerSparesNewRun ==
  [][(fft_timers' < fft_timers /\ fft_status = STARTED /\ ~run_timed)
     => (fft_status' = STARTED /\ thread_running')]_vars

\* C30: the stream handle, once set, is never cleared; an open() that
\* finds it set raises SoundCaptureException and changes nothing, whatever
\* close() calls came before; an open() that finds it unset succeeds even
\* when the status is already FINISHED, and ends with the status STARTED.
C30_OpenOnceOnly ==
  [][/\ audio_stream # None => audio_stream' = audio_stream
     /\ (n_calls' = n_calls + 1 /\ last_op' = "open") =>
          IF audio_stream # None
            THEN /\ last_exc' = "SoundCaptureException"
                 /\ UNCHANGED <<status, mic_timers, pa_vars>>
            ELSE /\ last_exc' = "none"
                 /\ audio_stream' # None
                 /\ audio_stream'[1] \in pa_open'
     /\ (open_pc = "created" /\ open_pc' = "idle") => status' = STARTED]_vars

\* close() before the first open(), which succeeded; then an open() raised
C30_Witness ==
  /\ close_from = NOT_STARTED
  /\ status = STARTED
  /\ audio_stream # None
  /\ pa_open = {audio_stream[1]}
  /\ last_op = "open"
  /\ last_exc = "SoundCaptureException"

\* C31: no file of a recorder is closed more often than it was opened,
\* and once the timer's close() and every other close() of a recorder with
\* a single session have returned, the recorder is FINISHED with its file
\* closed once.
C31_OverlappingClosesCloseOnce ==
  \A r \in Recorders :
    /\ files_closed[r] <= files_opened[r]
    /\ (/\ files_opened[r] = 1
        /\ timer_found[r] = STARTED
        /\ \A t \in Threads : close_pc[t] # Some(r))
         => /\ rec_status[r] = FINISHED
            /\ ~wave_open[r]
            /\ files_closed[r] = 1

====
